---- MODULE Spec2Model ----
(***************************************************************************)
(* Model of exporter/signalfxexporter/translation/converter.go: the        *)
(* conversion of one pdata.ResourceMetrics into SignalFx datapoints.       *)
(*                                                                         *)
(* Go strings are TLA+ strings (Len, SubSeq and \o act on them rune by     *)
(* rune).  A uint64 is four base-1,000,000 limbs, most significant first,  *)
(* and an int64 is a sign and such a magnitude, so that the 64-bit casts   *)
(* and the division by 1e6 are computed at their real width.  Pointers to  *)
(* sfxpb.Dimension and the backing arrays of []*sfxpb.Dimension slices     *)
(* live in an explicit heap, so that sharing and in-place writes show.     *)
(***************************************************************************)
EXTENDS Integers, Sequences, FiniteSets, TLC

VARIABLES
    rm,               \* the pdata.ResourceMetrics being converted (input)
    hasTranslator,    \* c.metricTranslator != nil
    pc,               \* position in MetricDataToSignalFxV2
    j,                \* index into rm.InstrumentationLibraryMetrics()
    k,                \* index into ilm.Metrics()
    heap,             \* Dimension objects and slice backing arrays
    extraDimensions,  \* the slice returned by resourceAttributesToDimensions
    sfxDatapoints,    \* the accumulated output
    calls,            \* one record per metricToSfxDataPoints call
    sanitizeRuns      \* number of sanitizeDataPointDimensions passes so far

vars == <<rm, hasTranslator, pc, j, k, heap, extraDimensions, sfxDatapoints,
          calls, sanitizeRuns>>

(***************************************************************************)
(* Bounds of the model.                                                    *)
(***************************************************************************)
MaxMetrics == 2
MaxPoints == 2

(***************************************************************************)
(* Well-known keys and values.                                             *)
(***************************************************************************)
upperBoundDimensionKey == "upper_bound"
AttributeCloudAccount == "cloud.account.id"
AttributeCloudRegion == "cloud.region"
AttributeHostID == "host.id"
AttributeCloudProvider == "cloud.provider"
AttributeCloudProviderAWS == "aws"
AttributeCloudProviderGCP == "gcp"
SFxAccessTokenLabel == "com.splunk.signalfx.access_token"

sfxMetricTypeGauge == "GAUGE"
sfxMetricTypeCumulativeCounter == "CUMULATIVE_COUNTER"
sfxMetricTypeCounter == "COUNTER"
NilMetricType == "nil"

Null == [null |-> TRUE]

(***************************************************************************)
(* 64-bit integers.                                                        *)
(***************************************************************************)
Million == 1000000

\* 2^63 and 2^64 as limbs
Two63 == <<9, 223372, 36854, 775808>>
Two64 == <<18, 446744, 73709, 551616>>
ZeroU64 == <<0, 0, 0, 0>>

\* a < b on limb tuples
U64Less(a, b) ==
    \E i \in 1..4 : a[i] < b[i] /\ \A h \in 1..(i - 1) : a[h] = b[h]

\* borrow into limb i when computing a - b (a >= b)
RECURSIVE Borrow(_, _, _)
Borrow(a, b, i) ==
    IF i > 4 THEN 0
    ELSE IF a[i] - b[i] - Borrow(a, b, i + 1) < 0 THEN 1 ELSE 0

U64Sub(a, b) ==
    [i \in 1..4 |->
        LET d == a[i] - b[i] - Borrow(a, b, i + 1)
        IN  IF d < 0 THEN d + Million ELSE d]

\* the Go conversion int64(u) of a uint64: two's complement reinterpretation
Int64OfUint64(u) ==
    IF U64Less(u, Two63)
    THEN [neg |-> FALSE, mag |-> u]
    ELSE [neg |-> TRUE, mag |-> U64Sub(Two64, u)]

\* x / 1e6 on int64: Go's division truncates toward zero
Int64QuoMillion(x) ==
    LET q == <<0, x.mag[1], x.mag[2], x.mag[3]>>
    IN  [neg |-> x.neg /\ q # ZeroU64, mag |-> q]

timestampToSignalFx(ts) == Int64QuoMillion(Int64OfUint64(ts))

(***************************************************************************)
(* Text.                                                                   *)
(***************************************************************************)
Letters ==
    {"a", "b", "c", "d", "e", "f", "g", "h", "i", "j", "k", "l", "m",
     "n", "o", "p", "q", "r", "s", "t", "u", "v", "w", "x", "y", "z",
     "A", "B", "C", "D", "E", "F", "G", "H", "I", "J", "K", "L", "M",
     "N", "O", "P", "Q", "R", "S", "T", "U", "V", "W", "X", "Y", "Z"}
Digits == {"0", "1", "2", "3", "4", "5", "6", "7", "8", "9"}

Char(str, i) == SubSeq(str, i, i)

\* filterMap letting the dot through
filterMap_dot(r) ==
    IF r \in Letters \/ r \in Digits \/ r = "_" \/ r = "-" \/ r = "." THEN r ELSE "_"

filterMap(r) ==
    IF r \in Letters \/ r \in Digits \/ r = "_" \/ r = "-" THEN r ELSE "_"

RECURSIVE MapRunes(_, _)
MapRunes(str, i) ==
    IF i > Len(str) THEN ""
    ELSE filterMap(Char(str, i)) \o MapRunes(str, i + 1)

filterKeyChars(str) == MapRunes(str, 1)

DigitChar(d) == Char("0123456789", d + 1)

RECURSIVE NatToStr(_)
NatToStr(n) ==
    IF n < 10 THEN DigitChar(n) ELSE NatToStr(n \div 10) \o DigitChar(n % 10)

\* tracetranslator.AttributeValueToString(val, false)
AttributeValueToString(val) ==
    CASE val.t = "str" -> val.s
      [] val.t = "bool" -> (IF val.b THEN "true" ELSE "false")
      [] val.t = "int" ->
            (IF val.n < 0 THEN "-" \o NatToStr(0 - val.n) ELSE NatToStr(val.n))

\* A float64 is its class and, when finite, its sign, its shortest decimal
\* digits and the position of the decimal point (strconv's decimalSlice).
RECURSIVE Zeros(_)
Zeros(n) == IF n <= 0 THEN "" ELSE "0" \o Zeros(n - 1)

FmtE(f) ==
    LET exp == f.dp - 1
        a == IF exp < 0 THEN 0 - exp ELSE exp
    IN  (IF f.neg THEN "-" ELSE "")
        \o Char(f.digs, 1)
        \o (IF Len(f.digs) > 1 THEN "." \o SubSeq(f.digs, 2, Len(f.digs)) ELSE "")
        \o "e" \o (IF exp < 0 THEN "-" ELSE "+")
        \o (IF a < 10 THEN "0" ELSE "") \o NatToStr(a)

FmtF(f) ==
    LET nd == Len(f.digs)
        m == IF nd < f.dp THEN nd ELSE f.dp
    IN  (IF f.neg THEN "-" ELSE "")
        \o (IF f.dp > 0 THEN SubSeq(f.digs, 1, m) \o Zeros(f.dp - m) ELSE "0")
        \o (IF nd > f.dp
            THEN "." \o Zeros(0 - f.dp) \o
                 SubSeq(f.digs, (IF f.dp > 0 THEN f.dp + 1 ELSE 1), nd)
            ELSE "")

\* strconv.FormatFloat(f, 'g', -1, 64)
float64ToDimValue(f) ==
    CASE f.class = "nan" -> "NaN"
      [] f.class = "inf" -> (IF f.neg THEN "-Inf" ELSE "+Inf")
      [] OTHER ->
            IF f.dp - 1 < 0 - 4 \/ f.dp - 1 >= 6 THEN FmtE(f) ELSE FmtF(f)

PosInf == [class |-> "inf", neg |-> FALSE, digs |-> "", dp |-> 0]
infinityBoundSFxDimValue == float64ToDimValue(PosInf)

(***************************************************************************)
(* The heap: Dimension objects (address = index into heap.dims) and the    *)
(* backing arrays of []*sfxpb.Dimension slices (heap.arrs).  A slice is    *)
(* (array, len, cap); pointer 0 is nil and array 0 is the nil slice's.     *)
(***************************************************************************)
\* TLC hands an operator its arguments unevaluated; a loop that tests
\* Computed(st) first carries the value of st, not the pending computation
Computed(v) == v = v

EmptyHeap == [dims |-> <<>>, arrs |-> <<>>]
NilSlice == [arr |-> 0, len |-> 0, cap |-> 0]

\* &sfxpb.Dimension{Key: key, Value: value}
NewDim(h, key, value) ==
    [h |-> [h EXCEPT !.dims = Append(@, [Key |-> key, Value |-> value])],
     p |-> Len(h.dims) + 1]

\* make([]*sfxpb.Dimension, len, cap)
MakeSlice(h, len, cap) ==
    [h |-> [h EXCEPT !.arrs = Append(@, [i \in 1..cap |-> 0])],
     s |-> [arr |-> Len(h.arrs) + 1, len |-> len, cap |-> cap]]

\* runtime.growslice for a small slice of pointers
GrowCap(oldcap, needed) ==
    IF needed > oldcap + oldcap THEN needed ELSE oldcap + oldcap

\* append(s, p): in place when capacity is left, else into a new array
AppendPtr(h, s, p) ==
    IF s.len < s.cap
    THEN [h |-> [h EXCEPT !.arrs[s.arr][s.len + 1] = p],
          s |-> [s EXCEPT !.len = @ + 1]]
    ELSE LET newcap == GrowCap(s.cap, s.len + 1)
             arr == [i \in 1..newcap |->
                        IF i <= s.len THEN h.arrs[s.arr][i]
                        ELSE IF i = s.len + 1 THEN p ELSE 0]
         IN  [h |-> [h EXCEPT !.arrs = Append(@, arr)],
              s |-> [arr |-> Len(h.arrs) + 1, len |-> s.len + 1,
                     cap |-> newcap]]

\* copy(dst, src)
CopySlice(h, dst, src) ==
    LET n == IF dst.len < src.len THEN dst.len ELSE src.len
    IN  IF n = 0 THEN h
        ELSE [h EXCEPT !.arrs[dst.arr] =
                [i \in 1..Len(@) |-> IF i <= n THEN h.arrs[src.arr][i] ELSE @[i]]]

\* the dimensions the pointers of a slice point to
Deref(h, s) == [i \in 1..s.len |-> h.dims[h.arrs[s.arr][i]]]

(***************************************************************************)
(* Dimension Assembler.                                                    *)
(***************************************************************************)
RECURSIVE GetFrom(_, _, _)
GetFrom(attrs, key, i) ==
    IF i > Len(attrs) THEN Null
    ELSE IF attrs[i].k = key THEN attrs[i].v
    ELSE GetFrom(attrs, key, i + 1)

\* AttributeValue.StringVal() is "" for a value that is not a string
StringVal(a) == IF a.t = "str" THEN a.s ELSE ""

getStringAttr(attrs, key) ==
    LET a == GetFrom(attrs, key, 1)
    IN  IF a # Null THEN StringVal(a) ELSE ""

\* which case of the switch on provider installs a filter
ProviderBranch(attrs) ==
    LET accountID == getStringAttr(attrs, AttributeCloudAccount)
        region == getStringAttr(attrs, AttributeCloudRegion)
        instanceID == getStringAttr(attrs, AttributeHostID)
        provider == getStringAttr(attrs, AttributeCloudProvider)
    IN  IF provider = AttributeCloudProviderAWS
        THEN (IF instanceID = "" \/ region = "" \/ accountID = ""
              THEN "none" ELSE "aws")
        ELSE IF provider = AttributeCloudProviderGCP
        THEN (IF accountID = "" \/ instanceID = "" THEN "none" ELSE "gcp")
        ELSE "none"

\* the gcp filter copied from the aws one, region included
DimFilter_gcpRegion(branch, key) ==
    CASE branch \in {"aws", "gcp"} ->
            key # AttributeCloudAccount /\ key # AttributeCloudRegion
            /\ key # AttributeHostID /\ key # AttributeCloudProvider
      [] OTHER -> TRUE

\* the closure `filter` of each branch
DimFilter(branch, key) ==
    CASE branch = "aws" ->
            key # AttributeCloudAccount /\ key # AttributeCloudRegion
            /\ key # AttributeHostID /\ key # AttributeCloudProvider
      [] branch = "gcp" ->
            key # AttributeCloudAccount /\ key # AttributeHostID
            /\ key # AttributeCloudProvider
      [] OTHER -> TRUE

\* the synthesized dimension of a branch
CloudIdKey(branch) == IF branch = "aws" THEN "AWSUniqueId" ELSE "gcp_id"
CloudIdValue(branch, attrs) ==
    LET accountID == getStringAttr(attrs, AttributeCloudAccount)
        region == getStringAttr(attrs, AttributeCloudRegion)
        instanceID == getStringAttr(attrs, AttributeHostID)
    IN  IF branch = "aws"
        THEN instanceID \o "_" \o region \o "_" \o accountID
        ELSE accountID \o "_" \o instanceID

\* the ForEach without the test on the access token
RECURSIVE AttrForEach_token(_, _, _, _)
AttrForEach_token(st, attrs, branch, i) ==
    IF Computed(st) /\ i > Len(attrs) THEN st
    ELSE IF ~DimFilter(branch, attrs[i].k) THEN AttrForEach_token(st, attrs, branch, i + 1)
    ELSE LET d == NewDim(st.h, attrs[i].k, AttributeValueToString(attrs[i].v))
         IN  AttrForEach_token(AppendPtr(d.h, st.s, d.p), attrs, branch, i + 1)

\* resourceAttr.ForEach(...): st is [h, s], the heap and the dims slice
RECURSIVE AttrForEach(_, _, _, _)
AttrForEach(st, attrs, branch, i) ==
    IF Computed(st) /\ i > Len(attrs) THEN st
    ELSE IF attrs[i].k = SFxAccessTokenLabel THEN AttrForEach(st, attrs, branch, i + 1)
    ELSE IF ~DimFilter(branch, attrs[i].k) THEN AttrForEach(st, attrs, branch, i + 1)
    ELSE LET d == NewDim(st.h, attrs[i].k, AttributeValueToString(attrs[i].v))
         IN  AttrForEach(AppendPtr(d.h, st.s, d.p), attrs, branch, i + 1)

resourceAttributesToDimensions(h, resourceAttr) ==
    LET branch == ProviderBranch(resourceAttr)
        first ==
            IF branch = "none" THEN [h |-> h, s |-> NilSlice]
            ELSE LET d == NewDim(h, CloudIdKey(branch),
                                 CloudIdValue(branch, resourceAttr))
                 IN  AppendPtr(d.h, NilSlice, d.p)
    IN  AttrForEach(first, resourceAttr, branch, 1)

(***************************************************************************)
(* Shape Converter.                                                        *)
(***************************************************************************)
\* the classification without the test of monotonicity
fromMetricDataTypeToMetricType_mono(metric) ==
    CASE metric.DataType \in {"IntGauge", "DoubleGauge"} -> sfxMetricTypeGauge
      [] metric.DataType \in {"IntSum", "DoubleSum", "IntHistogram", "DoubleHistogram"} ->
            IF metric.AggregationTemporality = "DELTA"
            THEN sfxMetricTypeCounter
            ELSE sfxMetricTypeCumulativeCounter
      [] OTHER -> NilMetricType

fromMetricDataTypeToMetricType(metric) ==
    CASE metric.DataType = "IntGauge" -> sfxMetricTypeGauge
      [] metric.DataType = "DoubleGauge" -> sfxMetricTypeGauge
      [] metric.DataType \in {"IntSum", "DoubleSum"} ->
            IF ~metric.IsMonotonic THEN sfxMetricTypeGauge
            ELSE IF metric.AggregationTemporality = "DELTA"
            THEN sfxMetricTypeCounter
            ELSE sfxMetricTypeCumulativeCounter
      [] metric.DataType \in {"IntHistogram", "DoubleHistogram"} ->
            IF metric.AggregationTemporality = "DELTA"
            THEN sfxMetricTypeCounter
            ELSE sfxMetricTypeCumulativeCounter
      [] OTHER -> NilMetricType

makeBaseDataPoint(m) ==
    [Metric |-> m.Name,
     MetricType |-> fromMetricDataTypeToMetricType(m),
     Timestamp |-> [neg |-> FALSE, mag |-> ZeroU64],
     Value |-> [IntValue |-> Null, DoubleValue |-> Null],
     Dimensions |-> NilSlice]

\* labels.ForEach(...): st is [h, s]
RECURSIVE LabelsForEach(_, _, _)
LabelsForEach(st, labels, pos) ==
    IF Computed(st) /\ pos > Len(labels) THEN st
    ELSE LET d == NewDim(st.h, labels[pos].k, labels[pos].v)
         IN  LabelsForEach(AppendPtr(d.h, st.s, d.p), labels, pos + 1)

\* labelsToDimensions appending to extraDims itself instead of to a copy
labelsToDimensions_alias(h, labels, extraDims) ==
    IF Len(labels) = 0 THEN [h |-> h, s |-> extraDims]
    ELSE LabelsForEach([h |-> h, s |-> extraDims], labels, 1)

labelsToDimensions(h, labels, extraDims) ==
    LET m == MakeSlice(h, extraDims.len, Len(labels) + extraDims.len)
        c == [h |-> CopySlice(m.h, m.s, extraDims), s |-> m.s]
    IN  IF Len(labels) = 0 THEN c ELSE LabelsForEach(c, labels, 1)

\* one iteration of the loop of convertIntDatapoints; st is [h, out]
IntDatapoint(st, inDp, basePoint, extraDims) ==
    LET d == labelsToDimensions(st.h, inDp.LabelsMap, extraDims)
        dp == [basePoint EXCEPT
                 !.Timestamp = timestampToSignalFx(inDp.Timestamp),
                 !.Dimensions = d.s,
                 !.Value.IntValue = inDp.Value]
    IN  [h |-> d.h, out |-> Append(st.out, dp)]

RECURSIVE IntDatapointsLoop(_, _, _, _, _)
IntDatapointsLoop(st, in, basePoint, extraDims, i) ==
    IF Computed(st) /\ i > Len(in) THEN st
    ELSE IF in[i].IsNil THEN IntDatapointsLoop(st, in, basePoint, extraDims, i + 1)
    ELSE IntDatapointsLoop(IntDatapoint(st, in[i], basePoint, extraDims),
                           in, basePoint, extraDims, i + 1)

convertIntDatapoints(h, in, basePoint, extraDims) ==
    IntDatapointsLoop([h |-> h, out |-> <<>>], in, basePoint, extraDims, 1)

\* one iteration of the loop of convertDoubleDatapoints
DoubleDatapoint(st, inDp, basePoint, extraDims) ==
    LET d == labelsToDimensions(st.h, inDp.LabelsMap, extraDims)
        dp == [basePoint EXCEPT
                 !.Timestamp = timestampToSignalFx(inDp.Timestamp),
                 !.Dimensions = d.s,
                 !.Value.DoubleValue = inDp.Value]
    IN  [h |-> d.h, out |-> Append(st.out, dp)]

RECURSIVE DoubleDatapointsLoop(_, _, _, _, _)
DoubleDatapointsLoop(st, in, basePoint, extraDims, i) ==
    IF Computed(st) /\ i > Len(in) THEN st
    ELSE IF in[i].IsNil THEN DoubleDatapointsLoop(st, in, basePoint, extraDims, i + 1)
    ELSE DoubleDatapointsLoop(DoubleDatapoint(st, in[i], basePoint, extraDims),
                              in, basePoint, extraDims, i + 1)

convertDoubleDatapoints(h, in, basePoint, extraDims) ==
    DoubleDatapointsLoop([h |-> h, out |-> <<>>], in, basePoint, extraDims, 1)

\* the bucket loop of a histogram point: `for j, c := range counts`
\* (j counts from 1 here); st is [h, out]
RECURSIVE BucketLoop(_, _, _, _, _, _)
BucketLoop(st, histDP, ts, basePoint, extraDims, n) ==
    IF Computed(st) /\ n > Len(histDP.BucketCounts) THEN st
    ELSE LET bound == IF n - 1 < Len(histDP.ExplicitBounds)
                      THEN float64ToDimValue(histDP.ExplicitBounds[n])
                      ELSE infinityBoundSFxDimValue
             d == labelsToDimensions(st.h, histDP.LabelsMap, extraDims)
             u == NewDim(d.h, upperBoundDimensionKey, bound)
             a == AppendPtr(u.h, d.s, u.p)
             dp == [basePoint EXCEPT
                      !.Metric = basePoint.Metric \o "_bucket",
                      !.Timestamp = ts,
                      !.Dimensions = a.s,
                      !.Value.IntValue = Int64OfUint64(histDP.BucketCounts[n])]
         IN  BucketLoop([h |-> a.h, out |-> Append(st.out, dp)],
                        histDP, ts, basePoint, extraDims, n + 1)

\* the sum point appended before the count point
CountAndSum_sumFirst(st, histDP, ts, basePoint, extraDims, kind) ==
    LET dc == labelsToDimensions(st.h, histDP.LabelsMap, extraDims)
        countDP == [basePoint EXCEPT
                      !.Metric = basePoint.Metric \o "_count",
                      !.Timestamp = ts,
                      !.Dimensions = dc.s,
                      !.Value.IntValue = Int64OfUint64(histDP.Count)]
        ds == labelsToDimensions(dc.h, histDP.LabelsMap, extraDims)
        sumDP == [basePoint EXCEPT
                      !.Timestamp = ts,
                      !.Dimensions = ds.s,
                      !.Value[kind] = histDP.Sum]
    IN  [h |-> ds.h, out |-> st.out \o <<sumDP, countDP>>]

\* the count and sum points of a histogram point; kind is "IntValue" for
\* convertIntHistogram and "DoubleValue" for convertDoubleHistogram
CountAndSum(st, histDP, ts, basePoint, extraDims, kind) ==
    LET dc == labelsToDimensions(st.h, histDP.LabelsMap, extraDims)
        countDP == [basePoint EXCEPT
                      !.Metric = basePoint.Metric \o "_count",
                      !.Timestamp = ts,
                      !.Dimensions = dc.s,
                      !.Value.IntValue = Int64OfUint64(histDP.Count)]
        ds == labelsToDimensions(dc.h, histDP.LabelsMap, extraDims)
        sumDP == [basePoint EXCEPT
                      !.Timestamp = ts,
                      !.Dimensions = ds.s,
                      !.Value[kind] = histDP.Sum]
    IN  [h |-> ds.h, out |-> st.out \o <<countDP, sumDP>>]

\* the test with < in place of !=
BucketsMalformed_less(histDP) ==
    Len(histDP.BucketCounts) > 0
    /\ Len(histDP.BucketCounts) < Len(histDP.ExplicitBounds) + 1

\* the test that skips the buckets of a point
BucketsMalformed(histDP) ==
    Len(histDP.BucketCounts) > 0
    /\ Len(histDP.BucketCounts) # Len(histDP.ExplicitBounds) + 1

\* one iteration of the loop over histDPs
HistogramPoint(st, histDP, basePoint, extraDims, kind) ==
    LET ts == timestampToSignalFx(histDP.Timestamp)
        cs == CountAndSum(st, histDP, ts, basePoint, extraDims, kind)
    IN  IF BucketsMalformed(histDP) THEN cs
        ELSE BucketLoop(cs, histDP, ts, basePoint, extraDims, 1)

RECURSIVE HistogramLoop(_, _, _, _, _, _)
HistogramLoop(st, histDPs, basePoint, extraDims, kind, i) ==
    IF Computed(st) /\ i > Len(histDPs) THEN st
    ELSE IF histDPs[i].IsNil
    THEN HistogramLoop(st, histDPs, basePoint, extraDims, kind, i + 1)
    ELSE HistogramLoop(HistogramPoint(st, histDPs[i], basePoint, extraDims, kind),
                       histDPs, basePoint, extraDims, kind, i + 1)

convertIntHistogram(h, histDPs, basePoint, extraDims) ==
    HistogramLoop([h |-> h, out |-> <<>>], histDPs, basePoint, extraDims,
                  "IntValue", 1)

convertDoubleHistogram(h, histDPs, basePoint, extraDims) ==
    HistogramLoop([h |-> h, out |-> <<>>], histDPs, basePoint, extraDims,
                  "DoubleValue", 1)

(***************************************************************************)
(* Key Sanitizer.                                                          *)
(***************************************************************************)
\* the inner loop: `for _, d := range dp.Dimensions { d.Key = ... }`
RECURSIVE SanitizeDims(_, _, _)
SanitizeDims(h, s, i) ==
    IF Computed(h) /\ i > s.len THEN h
    ELSE LET p == h.arrs[s.arr][i]
         IN  SanitizeDims([h EXCEPT !.dims[p].Key = filterKeyChars(@)], s, i + 1)

RECURSIVE SanitizePoints(_, _, _)
SanitizePoints(h, dps, i) ==
    IF Computed(h) /\ i > Len(dps) THEN h
    ELSE SanitizePoints(SanitizeDims(h, dps[i].Dimensions, 1), dps, i + 1)

sanitizeDataPointDimensions(h, dps) == SanitizePoints(h, dps, 1)

(***************************************************************************)
(* Rule Translator: MetricTranslator.TranslateDataPoints is outside this   *)
(* file; it returns a possibly shorter list.                               *)
(***************************************************************************)
TranslatorRules == {"keep", "drop"}

TranslateDataPoints(dps, rule) ==
    IF rule = "drop" /\ Len(dps) > 0 THEN SubSeq(dps, 1, Len(dps) - 1) ELSE dps

(***************************************************************************)
(* Series Translator / Orchestrator.                                       *)
(***************************************************************************)
\* the switch with a default case that converts integer points
ShapeSwitch_default(h, metric, basePoint, extraDimensions_) ==
    CASE metric.DataType \in {"DoubleGauge", "DoubleSum"} ->
            convertDoubleDatapoints(h, metric.DataPoints, basePoint, extraDimensions_)
      [] metric.DataType = "IntHistogram" ->
            convertIntHistogram(h, metric.DataPoints, basePoint, extraDimensions_)
      [] metric.DataType = "DoubleHistogram" ->
            convertDoubleHistogram(h, metric.DataPoints, basePoint, extraDimensions_)
      [] OTHER ->
            convertIntDatapoints(h, metric.DataPoints, basePoint, extraDimensions_)

\* the switch on metric.DataType(): [h, out]
ShapeSwitch(h, metric, basePoint, extraDimensions_) ==
    CASE metric.DataType \in {"IntGauge", "IntSum"} ->
            convertIntDatapoints(h, metric.DataPoints, basePoint, extraDimensions_)
      [] metric.DataType \in {"DoubleGauge", "DoubleSum"} ->
            convertDoubleDatapoints(h, metric.DataPoints, basePoint, extraDimensions_)
      [] metric.DataType = "IntHistogram" ->
            convertIntHistogram(h, metric.DataPoints, basePoint, extraDimensions_)
      [] metric.DataType = "DoubleHistogram" ->
            convertDoubleHistogram(h, metric.DataPoints, basePoint, extraDimensions_)
      [] OTHER -> [h |-> h, out |-> <<>>]

\* metricToSfxDataPoints without the early return for MetricDataTypeNone
metricToSfxDataPoints_noReturn(h, metric, extraDimensions_, translate, rule) ==
    LET r == ShapeSwitch(h, metric, makeBaseDataPoint(metric), extraDimensions_)
    IN  [h |-> r.h, dps |-> r.out, handed |-> translate,
         ret |-> IF translate THEN TranslateDataPoints(r.out, rule) ELSE r.out]

\* result: the heap, the points converted (dps before translation), whether
\* the translator was called on them, and the points returned
metricToSfxDataPoints(h, metric, extraDimensions_, translate, rule) ==
    LET basePoint == makeBaseDataPoint(metric)
    IN  IF metric.DataType = "None"
        THEN [h |-> h, dps |-> <<>>, handed |-> FALSE, ret |-> <<>>]
        ELSE LET r == ShapeSwitch(h, metric, basePoint, extraDimensions_)
             IN  [h |-> r.h, dps |-> r.out, handed |-> translate,
                  ret |-> IF translate THEN TranslateDataPoints(r.out, rule)
                          ELSE r.out]

(***************************************************************************)
(* MetricDataToSignalFxV2, one action per step of its loops.               *)
(***************************************************************************)
Ilms == rm.InstrumentationLibraryMetrics

\* extraDimensions = resourceAttributesToDimensions(res.Attributes())
Start ==
    /\ pc = "start"
    /\ LET r == resourceAttributesToDimensions(heap, rm.Attributes)
       IN  /\ heap' = r.h
           /\ extraDimensions' = r.s
    /\ pc' = "loop"
    /\ UNCHANGED <<rm, hasTranslator, j, k, sfxDatapoints, calls, sanitizeRuns>>

\* if ilm.IsNil() { continue }
SkipNilIlm ==
    /\ pc = "loop"
    /\ j <= Len(Ilms)
    /\ Ilms[j].IsNil
    /\ j' = j + 1
    /\ k' = 1
    /\ UNCHANGED <<rm, hasTranslator, pc, heap, extraDimensions, sfxDatapoints,
                   calls, sanitizeRuns>>

\* if m.IsNil() { continue }
SkipNilMetric ==
    /\ pc = "loop"
    /\ j <= Len(Ilms)
    /\ ~Ilms[j].IsNil
    /\ k <= Len(Ilms[j].Metrics)
    /\ Ilms[j].Metrics[k].IsNil
    /\ k' = k + 1
    /\ UNCHANGED <<rm, hasTranslator, pc, j, heap, extraDimensions,
                   sfxDatapoints, calls, sanitizeRuns>>

\* dps := c.metricToSfxDataPoints(m, extraDimensions)
\* sfxDatapoints = append(sfxDatapoints, dps...)
ConvertMetric ==
    /\ pc = "loop"
    /\ j <= Len(Ilms)
    /\ ~Ilms[j].IsNil
    /\ k <= Len(Ilms[j].Metrics)
    /\ ~Ilms[j].Metrics[k].IsNil
    /\ \E rule \in TranslatorRules :
          LET r == metricToSfxDataPoints(heap, Ilms[j].Metrics[k],
                                         extraDimensions, hasTranslator, rule)
          IN  /\ heap' = r.h
              /\ sfxDatapoints' = sfxDatapoints \o r.ret
              /\ calls' = Append(calls,
                    [j |-> j, k |-> k, dps |-> r.dps, handed |-> r.handed,
                     sanitizedBefore |-> sanitizeRuns, ret |-> r.ret])
    /\ k' = k + 1
    /\ UNCHANGED <<rm, hasTranslator, pc, j, extraDimensions, sanitizeRuns>>

\* the inner loop ends: j++
NextIlm ==
    /\ pc = "loop"
    /\ j <= Len(Ilms)
    /\ ~Ilms[j].IsNil
    /\ k > Len(Ilms[j].Metrics)
    /\ j' = j + 1
    /\ k' = 1
    /\ UNCHANGED <<rm, hasTranslator, pc, heap, extraDimensions, sfxDatapoints,
                   calls, sanitizeRuns>>

\* sanitizeDataPointDimensions(sfxDatapoints); return sfxDatapoints
SanitizeAndReturn ==
    /\ pc = "loop"
    /\ j > Len(Ilms)
    /\ heap' = sanitizeDataPointDimensions(heap, sfxDatapoints)
    /\ sanitizeRuns' = sanitizeRuns + 1
    /\ pc' = "done"
    /\ UNCHANGED <<rm, hasTranslator, j, k, extraDimensions, sfxDatapoints, calls>>

Next ==
    \/ Start
    \/ SkipNilIlm
    \/ SkipNilMetric
    \/ ConvertMetric
    \/ NextIlm
    \/ SanitizeAndReturn

(***************************************************************************)
(* Inputs.                                                                 *)
(***************************************************************************)
U64(lo) == <<0, 0, 0, lo>>
MaxU64 == <<18, 446744, 73709, 551615>>
I64(neg, lo) == [neg |-> neg, mag |-> U64(lo)]
Fin(neg, digs, dp) == [class |-> "fin", neg |-> neg, digs |-> digs, dp |-> dp]
Str(s) == [t |-> "str", s |-> s]
Nil == [IsNil |-> TRUE]

\* 1 s, 1.999999 ms, 0.999999 ms, 2^63 - 1, 2^63 and 2^64 - 1 nanoseconds
Timestamps ==
    << <<0, 0, 1000, 0>>, <<0, 0, 1, 999999>>, <<0, 0, 0, 999999>>,
       <<9, 223372, 36854, 775807>>, Two63, MaxU64 >>

LabelMaps ==
    << <<[k |-> "path", v |-> "/a"]>>,
       <<>>,
       <<[k |-> "a.b", v |-> "x y"], [k |-> "c d", v |-> "z.w"]>> >>

IntValues == <<I64(FALSE, 42), I64(TRUE, 7), I64(FALSE, 0)>>
\* 1.5, -0.25, 1e+21
DoubleValues == <<Fin(FALSE, "15", 1), Fin(TRUE, "25", 0), Fin(FALSE, "1", 22)>>
\* ascending explicit bounds: 1e-05, 0.5, 10, 1e+06, 2.5e+07
Bounds ==
    <<Fin(FALSE, "1", 0 - 4), Fin(FALSE, "5", 0), Fin(FALSE, "1", 2),
      Fin(FALSE, "1", 7), Fin(FALSE, "25", 8)>>
Counts == <<U64(3), U64(0), U64(5), U64(1), U64(2), U64(4)>>

Pick(seq, i) == seq[((i - 1) % Len(seq)) + 1]

NumberPoint(kind, i) ==
    [IsNil |-> FALSE, Timestamp |-> Pick(Timestamps, i),
     LabelsMap |-> Pick(LabelMaps, i),
     Value |-> IF kind = "Int" THEN Pick(IntValues, i) ELSE Pick(DoubleValues, i)]

NumberPoints(kind) == {Nil} \cup {NumberPoint(kind, i) : i \in 1..Len(Timestamps)}

\* a histogram point with nb explicit bounds and nc bucket counts
HistPoint(kind, i, nb, nc) ==
    [IsNil |-> FALSE, Timestamp |-> Pick(Timestamps, i),
     LabelsMap |-> Pick(LabelMaps, i),
     Count |-> Pick(Counts, i + 2),
     Sum |-> IF kind = "Int" THEN Pick(IntValues, i) ELSE Pick(DoubleValues, i),
     ExplicitBounds |-> SubSeq(Bounds, 1, nb),
     BucketCounts |-> SubSeq(Counts, 1, nc)]

MaxBounds == 2

HistPoints(kind) ==
    {Nil}
    \cup {HistPoint(kind, nb + 1, nb, nb + 1) : nb \in 0..MaxBounds}   \* well formed
    \cup {HistPoint(kind, 5, 1, 0)}                                   \* no buckets
    \cup {HistPoint(kind, 6, MaxBounds, MaxBounds)}                   \* too few counts
    \cup {HistPoint(kind, 4, 0, 2)}                                   \* too many counts

SeqsUpTo(S, n) == UNION {[1..m -> S] : m \in 0..n}

Temporalities == {"UNSPECIFIED", "DELTA", "CUMULATIVE"}

Metric(name, type, mono, temp, points) ==
    [IsNil |-> FALSE, Name |-> name, DataType |-> type, IsMonotonic |-> mono,
     AggregationTemporality |-> temp, DataPoints |-> points]

KindOf(type) ==
    IF type \in {"IntGauge", "IntSum", "IntHistogram"} THEN "Int" ELSE "Double"

\* every shape, monotonicity and temporality, each with one list of points
ShapeMetrics ==
    {Metric("g", t, FALSE, "UNSPECIFIED",
            <<NumberPoint(KindOf(t), 1), NumberPoint(KindOf(t), 2)>>) :
        t \in {"IntGauge", "DoubleGauge"}}
    \cup {Metric("s", t, mono, temp,
                 <<NumberPoint(KindOf(t), 3), NumberPoint(KindOf(t), 1)>>) :
            t \in {"IntSum", "DoubleSum"}, mono \in BOOLEAN, temp \in Temporalities}
    \cup {Metric("h", t, FALSE, temp,
                 <<HistPoint(KindOf(t), 1, 1, 2), HistPoint(KindOf(t), 2, 2, 2)>>) :
            t \in {"IntHistogram", "DoubleHistogram"}, temp \in Temporalities}
    \cup {Metric("n", "None", FALSE, "UNSPECIFIED", <<>>),
          Metric("o", "Other", FALSE, "UNSPECIFIED",
                 <<NumberPoint("Int", 1), NumberPoint("Int", 2)>>)}

\* some shapes, each with every list of points
PointMetrics ==
    {Metric("cpu.util", "IntGauge", FALSE, "UNSPECIFIED", ps) :
        ps \in SeqsUpTo(NumberPoints("Int"), MaxPoints)}
    \cup {Metric("requests_total", "DoubleSum", TRUE, "CUMULATIVE", ps) :
            ps \in SeqsUpTo(NumberPoints("Double"), MaxPoints)}
    \cup {Metric("lat", "IntHistogram", FALSE, "DELTA", ps) :
            ps \in SeqsUpTo(HistPoints("Int"), MaxPoints)}
    \cup {Metric("size", "DoubleHistogram", FALSE, "CUMULATIVE", ps) :
            ps \in SeqsUpTo(HistPoints("Double"), MaxPoints)}

\* the metrics of the batches of several metrics
BatchMetrics ==
    {Nil,
     Metric("cpu.util", "IntGauge", FALSE, "UNSPECIFIED",
            <<NumberPoint("Int", 1), NumberPoint("Int", 3)>>),
     Metric("s", "DoubleSum", TRUE, "UNSPECIFIED", <<NumberPoint("Double", 3)>>),
     Metric("lat", "IntHistogram", FALSE, "DELTA",
            <<HistPoint("Int", 3, 1, 1), HistPoint("Int", 1, 2, 3)>>),
     Metric("size", "DoubleHistogram", FALSE, "UNSPECIFIED",
            <<HistPoint("Double", 3, 2, 3)>>),
     Metric("n", "None", FALSE, "UNSPECIFIED", <<>>),
     Metric("o", "Other", FALSE, "UNSPECIFIED", <<NumberPoint("Int", 2)>>)}

Ilm(metrics) == [IsNil |-> FALSE, Metrics |-> metrics]

Batches ==
    {<<Ilm(<<m>>)>> : m \in ShapeMetrics}
    \cup {<<Ilm(ms)>> : ms \in SeqsUpTo(BatchMetrics, MaxMetrics)}
    \cup {<<Nil, Ilm(<<m>>)>> : m \in BatchMetrics}
    \cup {<<Ilm(<<m1>>), Ilm(<<m2>>)>> : m1 \in BatchMetrics, m2 \in BatchMetrics}

\* resource attributes: each well-known attribute absent or present
Opt(key, v) == IF v = Null THEN <<>> ELSE <<[k |-> key, v |-> v]>>

Attributes(token, provider, other, account, region, host) ==
    Opt(SFxAccessTokenLabel, token) \o Opt(AttributeCloudProvider, provider)
    \o Opt("k8s.pod/name", other) \o Opt(AttributeCloudAccount, account)
    \o Opt(AttributeCloudRegion, region) \o Opt(AttributeHostID, host)

AllResources ==
    {Attributes(token, provider, other, account, region, host) :
        token \in {Null, Str("secret")},
        provider \in {Null, Str("aws"), Str("gcp"), Str("azure")},
        other \in {Null, [t |-> "bool", b |-> TRUE]},
        account \in {Null, Str(""), Str("111")},
        region \in {Null, Str("us-east-1")},
        host \in {Null, Str("i-1"), [t |-> "int", n |-> 70]}}

SomeResources ==
    {<<>>,
     Attributes(Str("secret"), Str("aws"), Str("p"), Str("111"), Str("us-east-1"), Str("i-1")),
     Attributes(Null, Str("gcp"), Null, Str("acc1"), Str("us-east-1"), Str("h1")),
     Attributes(Null, Str("aws"), [t |-> "int", n |-> 0 - 3], Null, Null, Str("i-1"))}

\* three dimensions: the slice built by append has length 3 and capacity 4
OneResource ==
    {Attributes(Str("secret"), Str("azure"), [t |-> "bool", b |-> FALSE], Null,
                Str("us-east-1"), Null)}

InitWith(resources, batches) ==
    /\ rm \in [Attributes : resources, InstrumentationLibraryMetrics : batches]
    /\ hasTranslator \in BOOLEAN
    /\ pc = "start"
    /\ j = 1
    /\ k = 1
    /\ heap = EmptyHeap
    /\ extraDimensions = NilSlice
    /\ sfxDatapoints = <<>>
    /\ calls = <<>>
    /\ sanitizeRuns = 0

\* batches of every shape on a few resources, and every list of points of
\* some shapes on one resource
Init ==
    \/ InitWith(SomeResources, Batches)
    \/ InitWith(OneResource, {<<Ilm(<<m>>)>> : m \in PointMetrics})
Spec == Init /\ [][Next]_vars

\* every resource, each with a small batch
InitRes ==
    InitWith(AllResources,
             {<<Ilm(<<m>>)>> : m \in BatchMetrics}
             \cup {<<Nil, Ilm(<<>>)>>})
SpecRes == InitRes /\ [][Next]_vars

(***************************************************************************)
(* What the claims speak of, written from the input alone.                 *)
(***************************************************************************)
CallMetric(c) == Ilms[c.j].Metrics[c.k]
NonNil(ps) == SelectSeq(ps, LAMBDA p : ~p.IsNil)
IsGauge(m) == m.DataType \in {"IntGauge", "DoubleGauge"}
IsSum(m) == m.DataType \in {"IntSum", "DoubleSum"}
IsHistogram(m) == m.DataType \in {"IntHistogram", "DoubleHistogram"}
IsIntKind(m) == m.DataType \in {"IntGauge", "IntSum", "IntHistogram"}
DimsOf(p) == Deref(heap, p.Dimensions)

\* the metrics of the batch that are not nil, in order
RECURSIVE Flat(_)
Flat(ss) == IF ss = <<>> THEN <<>> ELSE Head(ss) \o Flat(Tail(ss))
BatchMetricsOf(ilms) ==
    Flat([i \in 1..Len(ilms) |->
            IF ilms[i].IsNil THEN <<>> ELSE NonNil(ilms[i].Metrics)])

\* a row of the classification table, and the output type it gives
InTable(m) ==
    \/ IsGauge(m)
    \/ IsSum(m) /\ ~m.IsMonotonic
    \/ IsSum(m) /\ m.IsMonotonic /\ m.AggregationTemporality \in {"DELTA", "CUMULATIVE"}
    \/ IsHistogram(m) /\ m.AggregationTemporality \in {"DELTA", "CUMULATIVE"}

TableType(m) ==
    IF IsGauge(m) \/ (IsSum(m) /\ ~m.IsMonotonic) THEN "GAUGE"
    ELSE IF m.AggregationTemporality = "DELTA" THEN "COUNTER"
    ELSE "CUMULATIVE_COUNTER"

\* C1: every point emitted from a metric of a row of the classification
\* table (gauge, sum, and the count, sum and bucket points of a histogram,
\* integer or floating point) has the output type of that row.
C1_TypeByShape ==
    \A i \in 1..Len(calls) :
        LET m == CallMetric(calls[i])
        IN  InTable(m) =>
                \A n \in 1..Len(calls[i].dps) :
                    calls[i].dps[n].MetricType = TableType(m)

C1_Witness ==
    /\ pc = "done"
    /\ \E i \in 1..Len(calls) :
          /\ CallMetric(calls[i]).DataType = "DoubleHistogram"
          /\ CallMetric(calls[i]).AggregationTemporality = "CUMULATIVE"
          /\ \E n \in 1..Len(calls[i].dps) :
                /\ calls[i].dps[n].Metric = "size_bucket"
                /\ calls[i].dps[n].MetricType = "CUMULATIVE_COUNTER"

\* C2 as stated: the Rule Translator is invoked only after the one
\* sanitizing pass, on the points of the whole batch.
C2_TranslatorAfterSanitizer ==
    \A i \in 1..Len(calls) :
        calls[i].handed =>
            /\ calls[i].sanitizedBefore = 1
            /\ Len(calls[i].dps) = Len(Flat([n \in 1..Len(calls) |-> calls[n].dps]))

\* number of points the conversion of a metric yields
HistPointCount(hp) ==
    2 + (IF Len(hp.BucketCounts) = Len(hp.ExplicitBounds) + 1
         THEN Len(hp.BucketCounts) ELSE 0)
RECURSIVE SumCounts(_)
SumCounts(hps) ==
    IF hps = <<>> THEN 0 ELSE HistPointCount(Head(hps)) + SumCounts(Tail(hps))
PointCount(m) ==
    IF IsGauge(m) \/ IsSum(m) THEN Len(NonNil(m.DataPoints))
    ELSE IF IsHistogram(m) THEN SumCounts(NonNil(m.DataPoints))
    ELSE 0

\* C2 amended: the Rule Translator is invoked once for each metric that is
\* not nil and whose data type is not None, inside the conversion of that
\* metric, on the points of that metric alone and before any sanitizing;
\* what it returns is appended to the output; the sanitizing pass runs
\* exactly once, after every metric has been converted and translated.
C2_TranslatorPerMetricBeforeSanitizer ==
    /\ sanitizeRuns = (IF pc = "done" THEN 1 ELSE 0)
    /\ pc = "done" => Len(calls) = Len(BatchMetricsOf(Ilms))
    /\ sfxDatapoints = Flat([i \in 1..Len(calls) |-> calls[i].ret])
    /\ \A i \in 1..Len(calls) :
          LET m == CallMetric(calls[i])
          IN  /\ m = BatchMetricsOf(Ilms)[i]
              /\ calls[i].handed = (hasTranslator /\ m.DataType # "None")
              /\ calls[i].sanitizedBefore = 0
              /\ Len(calls[i].dps) = PointCount(m)
              /\ \A n \in 1..Len(calls[i].dps) :
                    calls[i].dps[n].Metric \in
                        {m.Name, m.Name \o "_count", m.Name \o "_bucket"}
              /\ ~calls[i].handed => calls[i].ret = calls[i].dps

C2_Witness ==
    /\ pc = "done"
    /\ hasTranslator
    /\ Len(calls) = 2
    /\ \A i \in 1..2 : calls[i].handed /\ Len(calls[i].dps) > 0
    /\ CallMetric(calls[1]).Name # CallMetric(calls[2]).Name

\* C5 as stated: a metric that is no row of the classification table
\* contributes no point.
C5_NotInTableSkipped ==
    \A i \in 1..Len(calls) :
        ~InTable(CallMetric(calls[i])) => calls[i].dps = <<>>

\* C5 amended: a metric whose data type is None or unrecognized
\* contributes no point and every other metric of the batch is still
\* converted; a monotonic Sum or a Histogram whose temporality is neither
\* Delta nor Cumulative is not skipped: all its points are emitted, with
\* type CumulativeCounter.
C5_UnknownShapeSkipped ==
    /\ pc = "done" => Len(calls) = Len(BatchMetricsOf(Ilms))
    /\ \A i \in 1..Len(calls) :
          LET m == CallMetric(calls[i])
          IN  /\ ~(IsGauge(m) \/ IsSum(m) \/ IsHistogram(m)) =>
                    /\ calls[i].dps = <<>>
                    /\ ~hasTranslator => calls[i].ret = <<>>
              /\ (IsGauge(m) \/ IsSum(m) \/ IsHistogram(m)) =>
                    Len(calls[i].dps) = PointCount(m)
              /\ ((IsSum(m) /\ m.IsMonotonic) \/ IsHistogram(m))
                 /\ m.AggregationTemporality = "UNSPECIFIED" =>
                    \A n \in 1..Len(calls[i].dps) :
                        calls[i].dps[n].MetricType = "CUMULATIVE_COUNTER"

C5_Witness ==
    /\ pc = "done"
    /\ Len(calls) = 2
    /\ CallMetric(calls[1]).DataType = "Other"
    /\ Len(CallMetric(calls[1]).DataPoints) > 0
    /\ calls[1].dps = <<>>
    /\ CallMetric(calls[2]).DataType = "DoubleSum"
    /\ CallMetric(calls[2]).AggregationTemporality = "UNSPECIFIED"
    /\ Len(calls[2].dps) = 1

\* C7 as stated: a Gauge or Sum metric yields one point per input point, in
\* order, with the metric's name, the input's value in the same numeric
\* kind, and the timestamp floor(ns / 1,000,000) of the unsigned 64-bit
\* nanosecond timestamp.
C7_GaugeSumPoints ==
    \A i \in 1..Len(calls) :
        LET m == CallMetric(calls[i])
            ps == NonNil(m.DataPoints)
        IN  IsGauge(m) \/ IsSum(m) =>
                /\ Len(calls[i].dps) = Len(ps)
                /\ \A n \in 1..Len(ps) :
                      LET dp == calls[i].dps[n]
                      IN  /\ dp.Metric = m.Name
                          /\ dp.Value =
                                (IF IsIntKind(m)
                                 THEN [IntValue |-> ps[n].Value, DoubleValue |-> Null]
                                 ELSE [IntValue |-> Null, DoubleValue |-> ps[n].Value])
                          /\ dp.Timestamp =
                                [neg |-> FALSE,
                                 mag |-> <<0, ps[n].Timestamp[1],
                                           ps[n].Timestamp[2], ps[n].Timestamp[3]>>]

\* the resource attributes, read from the input alone
HasAttr(key) == \E i \in 1..Len(rm.Attributes) : rm.Attributes[i].k = key
StrAttr(key) ==
    IF \E i \in 1..Len(rm.Attributes) :
            rm.Attributes[i].k = key /\ rm.Attributes[i].v.t = "str"
    THEN (CHOOSE v \in {rm.Attributes[i].v : i \in 1..Len(rm.Attributes)} :
            \E i \in 1..Len(rm.Attributes) :
                rm.Attributes[i].k = key /\ rm.Attributes[i].v = v).s
    ELSE ""
AwsIdentity ==
    /\ StrAttr("cloud.provider") = "aws"
    /\ StrAttr("host.id") # ""
    /\ StrAttr("cloud.region") # ""
    /\ StrAttr("cloud.account.id") # ""
GcpIdentity ==
    /\ StrAttr("cloud.provider") = "gcp"
    /\ StrAttr("cloud.account.id") # ""
    /\ StrAttr("host.id") # ""
ConsumedKeys ==
    IF AwsIdentity
    THEN {"cloud.provider", "cloud.account.id", "cloud.region", "host.id"}
    ELSE IF GcpIdentity THEN {"cloud.provider", "cloud.account.id", "host.id"}
    ELSE {}
SynthesizedKeys == {"AWSUniqueId", "gcp_id"}
TextOf(v) ==
    CASE v.t = "str" -> v.s
      [] v.t = "bool" -> (IF v.b THEN "true" ELSE "false")
      [] v.t = "int" /\ v.n = 70 -> "70"
      [] v.t = "int" /\ v.n = 0 - 3 -> "-3"

\* the resource-level dimensions, before the sanitizing pass
ResourceDims == Deref(heap, extraDimensions)
KeysOf(dims) == {dims[i].Key : i \in 1..Len(dims)}

\* C8: at most one cloud-identity dimension is synthesized per resource:
\* AWSUniqueId = hostID_region_accountID for aws with host-id, region and
\* account non-empty strings, and none of the four attributes is emitted;
\* gcp_id = accountID_hostID for gcp with account and host-id non-empty,
\* none of account, host-id and provider is emitted and region still is;
\* otherwise nothing is synthesized and each of the four attributes that
\* is present is emitted.
C8_CloudIdentity ==
    pc = "loop" =>
        LET dims == ResourceDims
            four == {"cloud.provider", "cloud.account.id", "cloud.region", "host.id"}
        IN  /\ Cardinality({i \in 1..Len(dims) : dims[i].Key \in SynthesizedKeys}) <= 1
            /\ AwsIdentity =>
                  /\ dims[1] = [Key |-> "AWSUniqueId",
                                Value |-> StrAttr("host.id") \o "_"
                                          \o StrAttr("cloud.region") \o "_"
                                          \o StrAttr("cloud.account.id")]
                  /\ KeysOf(dims) \cap four = {}
            /\ ~AwsIdentity /\ GcpIdentity =>
                  /\ dims[1] = [Key |-> "gcp_id",
                                Value |-> StrAttr("cloud.account.id") \o "_"
                                          \o StrAttr("host.id")]
                  /\ KeysOf(dims) \cap {"cloud.provider", "cloud.account.id", "host.id"} = {}
                  /\ HasAttr("cloud.region") => "cloud.region" \in KeysOf(dims)
            /\ ~AwsIdentity /\ ~GcpIdentity =>
                  /\ KeysOf(dims) \cap SynthesizedKeys = {}
                  /\ \A key \in four : HasAttr(key) => key \in KeysOf(dims)

C8_Witness ==
    /\ pc = "loop"
    /\ GcpIdentity
    /\ HasAttr("cloud.region")
    /\ ResourceDims[1] = [Key |-> "gcp_id", Value |-> "111_i-1"]
    /\ "cloud.region" \in KeysOf(ResourceDims)

\* C9: in every provider branch the resource-level dimensions hold no
\* dimension with the access-token key, and every other attribute that the
\* branch does not consume appears exactly once, with its key unchanged and
\* its value rendered as text.
C9_TokenDroppedOthersOnce ==
    pc = "loop" =>
        LET dims == ResourceDims
        IN  /\ "com.splunk.signalfx.access_token" \notin KeysOf(dims)
            /\ \A a \in 1..Len(rm.Attributes) :
                  LET attr == rm.Attributes[a]
                  IN  attr.k # "com.splunk.signalfx.access_token"
                      /\ attr.k \notin ConsumedKeys =>
                          /\ Cardinality({i \in 1..Len(dims) : dims[i].Key = attr.k}) = 1
                          /\ \E i \in 1..Len(dims) :
                                dims[i] = [Key |-> attr.k, Value |-> TextOf(attr.v)]
            /\ Len(dims) =
                  Cardinality({a \in 1..Len(rm.Attributes) :
                                  /\ rm.Attributes[a].k # "com.splunk.signalfx.access_token"
                                  /\ rm.Attributes[a].k \notin ConsumedKeys})
                  + (IF AwsIdentity \/ GcpIdentity THEN 1 ELSE 0)

C9_Witness ==
    /\ pc = "loop"
    /\ AwsIdentity
    /\ HasAttr("com.splunk.signalfx.access_token")
    /\ ResourceDims = <<[Key |-> "AWSUniqueId", Value |-> "i-1_us-east-1_111"],
                        [Key |-> "k8s.pod/name", Value |-> "true"]>>

\* the input point behind each point a metric yields: pi is the index of
\* the input point among the metric's points that are not nil, role is
\* "value", "count", "sum" or "bucket", and n is the bucket's index
WellFormed(hp) == Len(hp.BucketCounts) = Len(hp.ExplicitBounds) + 1
SourcesOfPoint(hp, pi) ==
    <<[src |-> hp, pi |-> pi, role |-> "count", n |-> 0],
      [src |-> hp, pi |-> pi, role |-> "sum", n |-> 0]>>
    \o (IF WellFormed(hp)
        THEN [n \in 1..Len(hp.BucketCounts) |->
                [src |-> hp, pi |-> pi, role |-> "bucket", n |-> n]]
        ELSE <<>>)
Sources(m) ==
    LET ps == NonNil(m.DataPoints)
    IN  IF IsGauge(m) \/ IsSum(m)
        THEN [i \in 1..Len(ps) |-> [src |-> ps[i], pi |-> i, role |-> "value", n |-> 0]]
        ELSE IF IsHistogram(m)
        THEN Flat([i \in 1..Len(ps) |-> SourcesOfPoint(ps[i], i)])
        ELSE <<>>

\* the text of the explicit bounds of the inputs, in order
BoundTexts == <<"1e-05", "0.5", "10", "1e+06", "2.5e+07">>
UpperBoundText(s) ==
    IF s.n <= Len(s.src.ExplicitBounds) THEN BoundTexts[s.n] ELSE "+Inf"

IntDatum(x) == [IntValue |-> x, DoubleValue |-> Null]
DoubleDatum(x) == [IntValue |-> Null, DoubleValue |-> x]

\* C3: a histogram point with N = bounds + 1 bucket counts yields exactly
\* 2 + N points, in order: <metric>_count with the count, <metric> with the
\* sum, then for each bucket <metric>_bucket with the bucket count as an
\* integer and the dimension upper_bound, the text of its bound or of
\* positive infinity for the last; all with the same timestamp.
C3_HistogramPoints ==
    \A i \in 1..Len(calls) :
        LET m == CallMetric(calls[i])
            dps == calls[i].dps
            srcs == Sources(m)
        IN  IsHistogram(m) =>
                /\ Len(dps) = Len(srcs)
                /\ \A n \in 1..Len(srcs) :
                      LET s == srcs[n]
                          dims == DimsOf(dps[n])
                      IN  WellFormed(s.src) =>
                            /\ s.role = "count" =>
                                  /\ dps[n].Metric = m.Name \o "_count"
                                  /\ dps[n].Value =
                                        IntDatum([neg |-> FALSE, mag |-> s.src.Count])
                                  /\ Len(dps) >= n + 1 + Len(s.src.BucketCounts)
                                  /\ \A o \in 1..(1 + Len(s.src.BucketCounts)) :
                                        /\ srcs[n + o].pi = s.pi
                                        /\ dps[n + o].Timestamp = dps[n].Timestamp
                                  /\ (n + 2 + Len(s.src.BucketCounts) <= Len(srcs) =>
                                        srcs[n + 2 + Len(s.src.BucketCounts)].pi # s.pi)
                            /\ s.role = "sum" =>
                                  /\ dps[n].Metric = m.Name
                                  /\ dps[n].Value =
                                        (IF IsIntKind(m) THEN IntDatum(s.src.Sum)
                                         ELSE DoubleDatum(s.src.Sum))
                            /\ s.role = "bucket" =>
                                  /\ dps[n].Metric = m.Name \o "_bucket"
                                  /\ dps[n].Value =
                                        IntDatum([neg |-> FALSE,
                                                  mag |-> s.src.BucketCounts[s.n]])
                                  /\ Len(dims) > 0
                                  /\ dims[Len(dims)] =
                                        [Key |-> "upper_bound",
                                         Value |-> UpperBoundText(s)]

C3_Witness ==
    /\ pc = "done"
    /\ Len(calls) = 1
    /\ CallMetric(calls[1]).DataType = "DoubleHistogram"
    /\ Len(NonNil(CallMetric(calls[1]).DataPoints)) = 1
    /\ Len(NonNil(CallMetric(calls[1]).DataPoints)[1].ExplicitBounds) = 2
    /\ Len(calls[1].dps) = 5
    /\ DimsOf(calls[1].dps[4])[Len(DimsOf(calls[1].dps[4]))].Value = "0.5"
    /\ DimsOf(calls[1].dps[5])[Len(DimsOf(calls[1].dps[5]))].Value = "+Inf"

\* a point as a value: its fields and the dimensions its slice points to
View(h, dps) ==
    [n \in 1..Len(dps) |->
        [Metric |-> dps[n].Metric, MetricType |-> dps[n].MetricType,
         Timestamp |-> dps[n].Timestamp, Value |-> dps[n].Value,
         Dims |-> Deref(h, dps[n].Dimensions)]]

\* the conversion of metric m alone, on this resource
AloneView(m) ==
    LET a == resourceAttributesToDimensions(EmptyHeap, rm.Attributes)
        r == ShapeSwitch(a.h, m, makeBaseDataPoint(m), a.s)
    IN  View(r.h, r.out)

Malformed(p) ==
    /\ ~p.IsNil
    /\ Len(p.BucketCounts) > 0
    /\ Len(p.BucketCounts) # Len(p.ExplicitBounds) + 1
Without(seq, i) == SubSeq(seq, 1, i - 1) \o SubSeq(seq, i + 1, Len(seq))

\* C4: a histogram point with bucket counts but not bounds + 1 of them
\* yields exactly its count point and its sum point; the other points of
\* the metric and the other metrics of the batch are converted as they
\* would be were that point absent.
C4_MalformedBuckets ==
    /\ pc = "done" => Len(calls) = Len(BatchMetricsOf(Ilms))
    /\ pc = "loop" =>
        \A i \in 1..Len(calls) :
            LET m == CallMetric(calls[i])
                v == View(heap, calls[i].dps)
            IN  /\ v = AloneView(m)
                /\ IsHistogram(m) =>
                      \A x \in 1..Len(m.DataPoints) :
                          Malformed(m.DataPoints[x]) =>
                              LET off == SumCounts(NonNil(SubSeq(m.DataPoints, 1, x - 1)))
                                  rest == AloneView([m EXCEPT !.DataPoints = Without(@, x)])
                              IN  /\ Len(v) = Len(rest) + 2
                                  /\ v[off + 1].Metric = m.Name \o "_count"
                                  /\ v[off + 2].Metric = m.Name
                                  /\ v[off + 1].Value =
                                        IntDatum([neg |-> FALSE, mag |-> m.DataPoints[x].Count])
                                  /\ Without(Without(v, off + 1), off + 1) = rest

C4_Witness ==
    /\ pc = "loop"
    /\ Len(calls) = 1
    /\ IsHistogram(CallMetric(calls[1]))
    /\ Len(CallMetric(calls[1]).DataPoints) = 2
    /\ Malformed(CallMetric(calls[1]).DataPoints[1])
    /\ ~CallMetric(calls[1]).DataPoints[2].IsNil
    /\ WellFormed(CallMetric(calls[1]).DataPoints[2])
    /\ Len(calls[1].dps) = 2 + 2 + Len(CallMetric(calls[1]).DataPoints[2].BucketCounts)

\* the dimensions a point is to carry, with their keys as in the input
LabelDims(labels) ==
    [i \in 1..Len(labels) |-> [Key |-> labels[i].k, Value |-> labels[i].v]]
AssemblerDims ==
    LET a == resourceAttributesToDimensions(EmptyHeap, rm.Attributes)
    IN  Deref(a.h, a.s)
SourceDims(s) ==
    AssemblerDims \o LabelDims(s.src.LabelsMap)
    \o (IF s.role = "bucket"
        THEN <<[Key |-> "upper_bound", Value |-> UpperBoundText(s)]>>
        ELSE <<>>)

AllowedRunes == Letters \cup Digits \cup {"_", "-"}
OnlyAllowed(key) == \A i \in 1..Len(key) : Char(key, i) \in AllowedRunes
Replaced(src, key) ==
    /\ Len(key) = Len(src)
    /\ \A i \in 1..Len(src) :
          Char(key, i) = (IF Char(src, i) \in AllowedRunes THEN Char(src, i) ELSE "_")

\* C6: when the call returns with no Rule Translator, every dimension key
\* of every returned point (from a resource attribute, a label, or
\* upper_bound) holds only letters, digits, underscore and hyphen and is
\* its source key with every other character replaced by one underscore,
\* and every dimension value is its source value.
C6_KeysSanitized ==
    pc = "done" /\ ~hasTranslator =>
        /\ sfxDatapoints = Flat([i \in 1..Len(calls) |-> calls[i].dps])
        /\ \A i \in 1..Len(calls) :
              LET srcs == Sources(CallMetric(calls[i]))
              IN  /\ Len(calls[i].dps) = Len(srcs)
                  /\ \A n \in 1..Len(srcs) :
                        LET got == DimsOf(calls[i].dps[n])
                            raw == SourceDims(srcs[n])
                        IN  /\ Len(got) = Len(raw)
                            /\ \A d \in 1..Len(raw) :
                                  /\ OnlyAllowed(got[d].Key)
                                  /\ Replaced(raw[d].Key, got[d].Key)
                                  /\ got[d].Value = raw[d].Value

C6_Witness ==
    /\ pc = "done"
    /\ ~hasTranslator
    /\ Len(sfxDatapoints) >= 3
    /\ \A n \in 1..2 :
          \E d \in 1..Len(DimsOf(sfxDatapoints[n])) :
              DimsOf(sfxDatapoints[n])[d] = [Key |-> "k8s_pod_name", Value |-> "p"]
    /\ \E d \in 1..Len(DimsOf(sfxDatapoints[1])) :
          DimsOf(sfxDatapoints[1])[d] = [Key |-> "a_b", Value |-> "x y"]
    /\ \E n \in 1..Len(sfxDatapoints) : \E d \in 1..Len(DimsOf(sfxDatapoints[n])) :
          DimsOf(sfxDatapoints[n])[d].Key = "upper_bound"

\* C10: while and after the metrics of a batch are converted, the
\* dimensions of every emitted point are the resource-level dimensions in
\* the Assembler's order, then the point's own labels, then, for a bucket
\* point only, one upper_bound dimension; the resource-level list keeps
\* its length and elements whatever other points are built.
C10_DimensionsPerPoint ==
    /\ pc # "start" => extraDimensions.len = Len(AssemblerDims)
    /\ pc = "loop" => ResourceDims = AssemblerDims
    /\ \A i \in 1..Len(calls) :
          LET srcs == Sources(CallMetric(calls[i]))
          IN  /\ Len(calls[i].dps) = Len(srcs)
              /\ \A n \in 1..Len(srcs) :
                    LET got == DimsOf(calls[i].dps[n])
                        raw == SourceDims(srcs[n])
                    IN  /\ pc = "loop" => got = raw
                        /\ Len(got) = Len(raw)
                        /\ \A d \in 1..Len(raw) : got[d].Value = raw[d].Value

C10_Witness ==
    /\ pc = "loop"
    /\ j > Len(Ilms)
    /\ extraDimensions.len = 3
    /\ extraDimensions.cap = 4
    /\ Len(calls) = 1
    /\ Len(calls[1].dps) = 9
    /\ calls[1].dps[3].Metric = "lat_bucket"
    /\ Len(DimsOf(calls[1].dps[1])) = 5
    /\ Len(DimsOf(calls[1].dps[3])) = 6
    /\ Len(DimsOf(calls[1].dps[6])) = 3
    /\ DimsOf(calls[1].dps[8])[4] = [Key |-> "upper_bound", Value |-> "1e-05"]
    /\ DimsOf(calls[1].dps[9])[4] = [Key |-> "upper_bound", Value |-> "+Inf"]

====
